---- MODULE Spec2Model ----
(***************************************************************************)
(* Font sprite sheet generator (scripts/font_spritesheet_generator.py).    *)
(*                                                                         *)
(* The model follows one run of main(): the batch loop over the requested  *)
(* sizes, and inside it generate_sprite_sheet with find_system_font, the   *)
(* fitting loop of calculate_optimal_font_size, the grid layout, the       *)
(* per-character render/metadata loop and the two file writes.             *)
(*                                                                         *)
(* The font library and the file system are the environment.  A font is    *)
(* described by what the code observes of it: whether a path for it        *)
(* exists, whether the built-in default font loads, at which sizes         *)
(* ImageFont.truetype raises, and the probe bounding box per point size.   *)
(* UV values are kept in millionths, which is what round(v, 6) stores.     *)
(***************************************************************************)
EXTENDS Integers, Sequences, FiniteSets

\* ------------------------------------------------------------------ bounds
MaxLen == 3
MaxSizes == 2

\* ------------------------------------------------------- program constants
CELL_SIZE == 16
FitPadding == 4
RangeStop == 4
CellAsFloor == CELL_SIZE
FloorSize == 8
DefaultNominalSize == 10
UvDigits == 6

UvScale == 10 ^ UvDigits

\* ------------------------------------------------------------ input spaces
Alphabet == {"A", "B"}

SeqsUpTo(S, n) == UNION {[1..k -> S] : k \in 1..n}

\* main(): character_set is args.characters when it is non-empty, else the
\* default set, so it is never empty.
CharacterSets == SeqsUpTo(Alphabet, MaxLen)

SizeChoices == {3, 8, 10, 13}

SizeLists == SeqsUpTo(SizeChoices, MaxSizes)

ColumnChoices == {-1, 0, 1, 2, 3, 2000001}

AllSizes == 1..16

\* What the code can observe of the font named on the command line.
\*   exists    : os.path.exists is true for the name or one of the font paths
\*   defaultOK : ImageFont.load_default() returns (does not raise)
\*   failAt    : sizes at which ImageFont.truetype / textbbox raises
\*   wmul,hmul : probe max_width = wmul * size, max_height = hmul * size
NormalFont == [exists |-> TRUE, defaultOK |-> TRUE, failAt |-> {}, wmul |-> 1, hmul |-> 1]

FontEnvs ==
    { NormalFont,
      [exists |-> TRUE,  defaultOK |-> TRUE,  failAt |-> {},       wmul |-> 2, hmul |-> 1],
      [exists |-> TRUE,  defaultOK |-> TRUE,  failAt |-> {},       wmul |-> 1, hmul |-> 3],
      [exists |-> TRUE,  defaultOK |-> TRUE,  failAt |-> {12, 11}, wmul |-> 1, hmul |-> 1],
      [exists |-> TRUE,  defaultOK |-> TRUE,  failAt |-> AllSizes, wmul |-> 1, hmul |-> 1],
      [exists |-> TRUE,  defaultOK |-> FALSE, failAt |-> AllSizes, wmul |-> 1, hmul |-> 1],
      [exists |-> FALSE, defaultOK |-> TRUE,  failAt |-> {},       wmul |-> 1, hmul |-> 1],
      [exists |-> FALSE, defaultOK |-> FALSE, failAt |-> {},       wmul |-> 1, hmul |-> 1] }

\* The runs explored: every grid (character set x column count) with one
\* ordinary font and size, and every font x size list with one small grid.
GridRuns ==
    [env : {NormalFont}, sizes : {<<8>>},
     columns : ColumnChoices, character_set : CharacterSets]

BatchRuns ==
    [env : FontEnvs, sizes : SizeLists,
     columns : {0, 2}, character_set : {<<"A", "B">>}]

Runs == GridRuns \cup BatchRuns

\* Probe box of the built-in bitmap default font (fixed size, not scalable).
DefaultProbe == [w |-> 6, h |-> 11]

NoFont == [kind |-> "none", size |-> 0]
DefaultFont == [kind |-> "default", size |-> 0]
TrueType(size) == [kind |-> "truetype", size |-> size]

VARIABLES
    env, sizes, columns, character_set,
    pc, idx, attempted, results, error,
    png, json, overwritten,
    font_size, font_path, cand, tried, font, actual_size, fit_return,
    rows, img_width, img_height, i, character_map, warned

inputs == <<env, sizes, columns, character_set>>
batch  == <<idx, attempted, results>>
files  == <<png, json, overwritten>>
fit    == <<font_size, font_path, cand, tried, font, actual_size, fit_return>>
grid   == <<rows, img_width, img_height>>
chars  == <<i, character_map, warned>>
vars   == <<inputs, pc, batch, error, files, fit, grid, chars>>

\* ------------------------------------------------------------ pure helpers
\* math.ceil(n / c) for n >= 0 and c # 0 (true division, then ceiling).
CeilDiv(n, c) ==
    IF c > 0
    THEN IF n % c = 0 THEN n \div c ELSE (n \div c) + 1
    ELSE -(n \div (-c))

\* round(num / den, 6) in millionths, for num >= 0 and den > 0
\* (round-half-to-even on the quotient).
Round6(num, den) ==
    LET scaled == num * UvScale
        q == scaled \div den
        r == scaled % den
    IN  IF 2 * r > den THEN q + 1
        ELSE IF 2 * r < den THEN q
        ELSE IF q % 2 = 0 THEN q ELSE q + 1

\* max over test_chars[:10] of the textbbox width / height of a font object.
ProbeWidth(f) == IF f.kind = "truetype" THEN env.wmul * f.size ELSE DefaultProbe.w
ProbeHeight(f) == IF f.kind = "truetype" THEN env.hmul * f.size ELSE DefaultProbe.h

MaxFitSize(target_size) == target_size - FitPadding

Fits(f) ==
    /\ ProbeWidth(f) <= MaxFitSize(CELL_SIZE)
    /\ ProbeHeight(f) <= MaxFitSize(CELL_SIZE)

\* range(initial_size, 4, -1)
SkipInitial(initial_size) == initial_size - 1
FirstCandidate(initial_size) == initial_size
NextCandidate(size) == size - 1
InRange(size) == size > RangeStop

\* ------------------------------------------------------------------- Init
Init ==
    /\ \E run \in Runs :
          /\ env = run.env
          /\ sizes = run.sizes
          /\ columns = run.columns
          /\ character_set = run.character_set
    /\ pc = "main"
    /\ idx = 1
    /\ attempted = <<>>
    /\ results = <<>>
    /\ error = "none"
    /\ png = {}
    /\ json = {}
    /\ overwritten = {}
    /\ font_size = 0
    /\ font_path = "none"
    /\ cand = 0
    /\ tried = <<>>
    /\ font = NoFont
    /\ actual_size = 0
    /\ fit_return = "none"
    /\ rows = 0
    /\ img_width = 0
    /\ img_height = 0
    /\ i = 0
    /\ character_map = {}
    /\ warned = {}

ResetLocals ==
    /\ font_size' = 0
    /\ font_path' = "none"
    /\ cand' = 0
    /\ tried' = <<>>
    /\ font' = NoFont
    /\ actual_size' = 0
    /\ fit_return' = "none"
    /\ rows' = 0
    /\ img_width' = 0
    /\ img_height' = 0
    /\ i' = 0
    /\ character_map' = {}
    /\ warned' = {}

\* ------------------------------------------------------------ main(): loop
\* for size in sizes: try: generate_sprite_sheet(args.font, size, ...)
MainIter ==
    /\ pc = "main"
    /\ idx <= Len(sizes)
    /\ attempted' = Append(attempted, sizes[idx])
    /\ font_size' = sizes[idx]
    /\ pc' = "find_font"
    /\ UNCHANGED <<inputs, idx, results, error, files, font_path, cand, tried,
                   font, actual_size, fit_return, grid, chars>>

\* Where the batch loop goes on after the except clause has reported a size.
AbortBatch(k, n) == n + 1
NextIndexAfterError(k, n) == k + 1

\* except Exception as e: print(...); traceback.print_exc()
MainExcept ==
    /\ pc = "except"
    /\ results' = Append(results, "error")
    /\ idx' = NextIndexAfterError(idx, Len(sizes))
    /\ error' = "none"
    /\ pc' = "main"
    /\ ResetLocals
    /\ UNCHANGED <<inputs, attempted, files>>

\* The for loop is exhausted: print("Done!")
MainDone ==
    /\ pc = "main"
    /\ idx > Len(sizes)
    /\ pc' = "done"
    /\ UNCHANGED <<inputs, batch, error, files, fit, grid, chars>>

\* ------------------------------------------------------- find_system_font
FindSystemFont ==
    /\ pc = "find_font"
    /\ IF env.exists
       THEN /\ font_path' = "str"
            /\ cand' = FirstCandidate(font_size)
            /\ pc' = "fit"
            /\ error' = error
       ELSE IF env.defaultOK
       THEN /\ font_path' = "default"
            /\ cand' = FirstCandidate(font_size)
            /\ pc' = "fit"
            /\ error' = error
       ELSE /\ font_path' = font_path
            /\ cand' = cand
            /\ pc' = "except"
            /\ error' = "font_not_found"
    /\ UNCHANGED <<inputs, batch, files, font_size, tried, font, actual_size,
                   fit_return, grid, chars>>

\* ------------------------------------------- calculate_optimal_font_size
FitReturn(f, size, how) ==
    /\ font' = f
    /\ actual_size' = size
    /\ fit_return' = how
    /\ pc' = "layout"

\* One iteration of: for size in range(initial_size, 4, -1)
FitTry ==
    /\ pc = "fit"
    /\ InRange(cand)
    /\ tried' = Append(tried, cand)
    /\ IF font_path # "str"
       THEN /\ FitReturn(DefaultFont, DefaultNominalSize, "default")
            /\ cand' = cand
       ELSE IF cand \in env.failAt
       THEN /\ cand' = NextCandidate(cand)
            /\ UNCHANGED <<font, actual_size, fit_return, pc>>
       ELSE IF Fits(TrueType(cand))
       THEN /\ FitReturn(TrueType(cand), cand, "loop")
            /\ cand' = cand
       ELSE /\ cand' = NextCandidate(cand)
            /\ UNCHANGED <<font, actual_size, fit_return, pc>>
    /\ UNCHANGED <<inputs, batch, error, files, font_size, font_path, grid, chars>>

\* After the loop: "use size 8 as absolute minimum".
FitFloor ==
    /\ pc = "fit"
    /\ ~InRange(cand)
    /\ IF font_path # "str"
       THEN /\ FitReturn(DefaultFont, FloorSize, "floor")
            /\ error' = error
       ELSE IF FloorSize \notin env.failAt
       THEN /\ FitReturn(TrueType(FloorSize), FloorSize, "floor")
            /\ error' = error
       ELSE IF env.defaultOK
       THEN /\ FitReturn(DefaultFont, FloorSize, "floor_default")
            /\ error' = error
       ELSE /\ pc' = "except"
            /\ error' = "default_font"
            /\ UNCHANGED <<font, actual_size, fit_return>>
    /\ UNCHANGED <<inputs, batch, files, font_size, font_path, cand, tried,
                   grid, chars>>

\* ----------------------------------- generate_sprite_sheet: grid dimensions
FloorDiv(n, c) == IF c > 0 THEN n \div c ELSE -(n \div (-c))
GridRows(num_chars, cols) == CeilDiv(num_chars, cols)

Layout ==
    /\ pc = "layout"
    /\ IF columns = 0
       THEN /\ pc' = "except"
            /\ error' = "zero_division"
            /\ UNCHANGED <<grid, chars>>
       ELSE LET r == GridRows(Len(character_set), columns)
                w == columns * CELL_SIZE
                h == r * CELL_SIZE
            IN  /\ rows' = r
                /\ img_width' = w
                /\ img_height' = h
                /\ IF w < 0 \/ h < 0
                   THEN /\ pc' = "except"
                        /\ error' = "image_size"
                   ELSE /\ pc' = "chars"
                        /\ error' = error
                /\ i' = 0
                /\ character_map' = {}
                /\ warned' = {}
    /\ UNCHANGED <<inputs, batch, files, fit>>

\* ------------------------------- generate_sprite_sheet: character loop body
SwappedCol(index, cols) == index \div cols
Col(index, cols) == index % cols
Row(index, cols) == index \div cols

Entry(char, index, x, y, w, h) ==
    [char |-> char, index |-> index, x |-> x, y |-> y,
     u0 |-> Round6(x, w), v0 |-> Round6(y, h),
     u1 |-> Round6(x + CELL_SIZE, w), v1 |-> Round6(y + CELL_SIZE, h)]

\* character_map[char] = {...}: a dict holds one value per key.
KeepFirst(m, e) == IF \E o \in m : o.char = e.char THEN m ELSE m \cup {e}
DictStore(m, e) == {o \in m : o.char # e.char} \cup {e}

\* Where control goes when draw.text raises inside the try.
RenderRaises == "raise"
AfterRenderFailure == "store"

RenderChar ==
    /\ pc = "chars"
    /\ i < Len(character_set)
    /\ \E drawn \in BOOLEAN :
         IF ~drawn /\ AfterRenderFailure # "store"
         THEN /\ pc' = "except"
              /\ error' = "render"
              /\ UNCHANGED chars
         ELSE IF img_width = 0 \/ img_height = 0
         THEN \* x / img_width, y / img_height: ZeroDivisionError
              /\ pc' = "except"
              /\ error' = "zero_division"
              /\ UNCHANGED chars
         ELSE LET char == character_set[i + 1]
                  x == Col(i, columns) * CELL_SIZE
                  y == Row(i, columns) * CELL_SIZE
              IN  /\ warned' = IF drawn THEN warned ELSE warned \cup {i}
                  /\ character_map' =
                        DictStore(character_map, Entry(char, i, x, y, img_width, img_height))
                  /\ i' = i + 1
                  /\ pc' = IF i + 1 < Len(character_set) THEN "chars" ELSE "save"
                  /\ error' = error
    /\ UNCHANGED <<inputs, batch, files, fit, grid>>

\* ------------------------------------ generate_sprite_sheet: output files
\* base_name = f"{font_name.replace(' ', '_')}_{actual_size}": the font name
\* is the same for the whole run, so a file is named by actual_size.
BaseName(size) == size

Metadata ==
    [font_size |-> actual_size,
     cell_width |-> CELL_SIZE,
     cell_height |-> CELL_SIZE,
     columns |-> columns,
     rows |-> rows,
     image_width |-> img_width,
     image_height |-> img_height,
     character_count |-> Len(character_set),
     character_map |-> character_map]

WriteFile(dir, name, content) ==
    {f \in dir : f.name # name} \cup {[name |-> name, content |-> content]}

Names(dir) == {f.name : f \in dir}

\* mkdir, img.save, json.dump, return; then main prints the two paths.
Save ==
    /\ pc = "save"
    /\ LET name == BaseName(actual_size)
           image == [font |-> font, width |-> img_width, height |-> img_height,
                     blank |-> warned]
       IN \E outcome \in {"ok", "image_failed", "json_failed"} :
            /\ png' = IF outcome = "image_failed" THEN png
                      ELSE WriteFile(png, name, image)
            /\ json' = IF outcome = "ok" THEN WriteFile(json, name, Metadata)
                       ELSE json
            /\ overwritten' =
                  IF outcome # "image_failed" /\ name \in Names(png)
                  THEN overwritten \cup {name} ELSE overwritten
            /\ IF outcome = "ok"
               THEN /\ results' = Append(results, "ok")
                    /\ idx' = idx + 1
                    /\ pc' = "main"
                    /\ error' = error
                    /\ ResetLocals
               ELSE /\ pc' = "except"
                    /\ error' = "io"
                    /\ UNCHANGED <<idx, results, fit, grid, chars>>
    /\ UNCHANGED <<inputs, attempted>>

\* ------------------------------------------------------------------- Spec
Next ==
    \/ MainIter
    \/ FindSystemFont
    \/ FitTry
    \/ FitFloor
    \/ Layout
    \/ RenderChar
    \/ Save
    \/ MainExcept
    \/ MainDone

Spec == Init /\ [][Next]_vars

\* ----------------------------------------------------------------- claims
Abs(a) == IF a >= 0 THEN a ELSE -a
Positions == 0..(Len(character_set) - 1)
CharAt(p) == character_set[p + 1]
NoRepeats == \A p, q \in Positions : CharAt(p) = CharAt(q) => p = q
LastPosition(c) ==
    CHOOSE p \in Positions :
        /\ CharAt(p) = c
        /\ \A q \in Positions : CharAt(q) = c => q <= p
InGeneration == pc \in {"fit", "layout", "chars", "save", "except"}
LoadsAndFits(t) ==
    /\ t \notin env.failAt
    /\ env.wmul * t <= 12
    /\ env.hmul * t <= 12

\* C1: for n >= 1 characters and c >= 1 columns, every written sidecar has
\* rows = ceil(n / c) (the least r with r * c >= n), image_width = c * 16,
\* image_height = rows * 16 and character_count = n.
C1_GridMetadata ==
    \A f \in json :
        LET m == f.content
            n == Len(character_set)
        IN  columns >= 1 =>
              /\ m.rows * columns >= n
              /\ (m.rows - 1) * columns < n
              /\ m.image_width = columns * 16
              /\ m.image_height = m.rows * 16
              /\ m.character_count = n

C1_Witness ==
    /\ Len(character_set) = 3
    /\ columns = 2
    /\ \E f \in json : f.content.rows = 2 /\ f.content.image_height = 32

C3_UvRange ==
    \A f \in json : \A e \in f.content.character_map :
        /\ 0 <= e.u0 /\ e.u0 < e.u1 /\ e.u1 <= 1000000
        /\ 0 <= e.v0 /\ e.v0 < e.v1 /\ e.v1 <= 1000000
        /\ Abs((e.u1 - e.u0) * columns - 1000000) <= columns

\* C4: calculate_optimal_font_size never returns a font whose probe bounding
\* box exceeds 12 in width or height, whatever the return taken.
C4_ReturnedFontFits ==
    fit_return # "none" =>
        /\ ProbeWidth(font) <= 12
        /\ ProbeHeight(font) <= 12

\* C5: main attempts the requested sizes once each, in list order, whatever
\* fails on the way: the attempts are always a prefix of the list with one
\* outcome reported per finished attempt, and at the end of the loop every
\* size has been attempted and reported.
C5_BatchContinues ==
    /\ Len(attempted) <= Len(sizes)
    /\ attempted = SubSeq(sizes, 1, Len(attempted))
    /\ Len(attempted) = Len(results) + (IF InGeneration \/ pc = "find_font" THEN 1 ELSE 0)
    /\ pc = "done" => attempted = sizes /\ Len(results) = Len(sizes)

C5_Witness ==
    /\ pc = "done"
    /\ Len(sizes) = 2
    /\ results = <<"error", "ok">>

\* C6: after a batch of distinct requested sizes that all succeed, the
\* output directory holds as many image/sidecar pairs as sizes were
\* requested, and no pair of an earlier size was overwritten by a later one.
C6_OnePairPerSize ==
    ( /\ pc = "done"
      /\ \A a, b \in 1..Len(sizes) : sizes[a] = sizes[b] => a = b
      /\ \A a \in 1..Len(results) : results[a] = "ok" )
    => /\ Cardinality(Names(png) \cap Names(json)) = Len(sizes)
       /\ overwritten = {}

\* C7: a character that occurs more than once in the character set has
\* exactly one entry in every written character_map, and that entry holds the
\* index, the pixel cell and the UV values of its last occurrence.
C7_LastWriteWins ==
    \A f \in json : \A p, q \in Positions :
        (p # q /\ CharAt(p) = CharAt(q)) =>
          LET m == f.content
              es == {e \in m.character_map : e.char = CharAt(p)}
              last == LastPosition(CharAt(p))
          IN  /\ Cardinality(es) = 1
              /\ \A e \in es :
                    /\ e.index = last
                    /\ e.x = (last % columns) * 16
                    /\ e.y = (last \div columns) * 16
                    /\ 2 * Abs(e.u0 * m.image_width - e.x * 1000000) <= m.image_width
                    /\ 2 * Abs(e.v0 * m.image_height - e.y * 1000000) <= m.image_height

C7_Witness ==
    /\ character_set = <<"A", "A">>
    /\ \E f \in json :
          /\ Cardinality(f.content.character_map) = 1
          /\ \E e \in f.content.character_map : e.char = "A" /\ e.index = 1

\* C8: a render failure on one character never ends the generation: the
\* character's entry is still recorded, the loop still reaches every later
\* character, and the write step is still reached with the full map.
C8_RenderFailureNonFatal ==
    /\ error # "render"
    /\ \A k \in warned :
          /\ k < i
          /\ \E e \in character_map : e.char = CharAt(k)
    /\ pc = "save" =>
          /\ i = Len(character_set)
          /\ \A p \in Positions : \E e \in character_map : e.char = CharAt(p)

C8_Witness ==
    /\ character_set = <<"A", "B", "A">>
    /\ sizes = <<8>>
    /\ results = <<"ok">>
    /\ \E f \in png :
          /\ f.content.blank = {0}
          /\ \E g \in json :
                /\ g.name = f.name
                /\ \E e \in g.content.character_map : e.char = "B" /\ e.index = 1
                /\ \E e \in g.content.character_map : e.char = "A" /\ e.index = 2

\* C9: for a scalable font and initial_size >= 5 the candidates tried are
\* initial_size, initial_size - 1, ... and never below 5; a size returned
\* from the loop fits and no larger candidate that loads and fits was passed
\* over; the floor is only used when no candidate loads and fits.
C9_LargestFittingSize ==
    (InGeneration /\ font_path = "str" /\ font_size >= 5) =>
        /\ \A k \in 1..Len(tried) : tried[k] = font_size - (k - 1) /\ tried[k] >= 5
        /\ fit_return = "loop" =>
              /\ actual_size \in 5..font_size
              /\ LoadsAndFits(actual_size)
              /\ tried[Len(tried)] = actual_size
              /\ \A t \in (actual_size + 1)..font_size : ~LoadsAndFits(t)
        /\ fit_return \in {"floor", "floor_default"} =>
              /\ Len(tried) = font_size - 4
              /\ \A t \in 5..font_size : ~LoadsAndFits(t)

C9_Witness ==
    /\ font_path = "str"
    /\ font_size = 13
    /\ env.failAt = {12, 11}
    /\ fit_return = "loop"
    /\ actual_size = 10
    /\ tried = <<13, 12, 11, 10>>

\* C10 as stated: the resolved size never exceeds the requested size.
C10_NeverGrows ==
    fit_return # "none" => actual_size <= font_size

\* C10 amended: the resolved size does not exceed the requested size when
\* the requested size is at least 10, or at least 8 for a scalable font;
\* every written sidecar of such a run carries a font_size no larger than
\* the largest requested size.
C10_ShrinksFromTen ==
    /\ (fit_return # "none" /\ (font_size >= 10 \/ (font_path = "str" /\ font_size >= 8)))
          => actual_size <= font_size
    /\ (\A a \in 1..Len(sizes) : sizes[a] >= 10) =>
          \A f \in json : \E a \in 1..Len(sizes) : f.content.font_size <= sizes[a]

C10_Witness ==
    /\ fit_return = "floor"
    /\ font_path = "str"
    /\ font_size = 13
    /\ actual_size = 8

====
